---- MODULE Spec2Model ----
(***************************************************************************)
(* A model of the container-literal macros of maplit (src/src/lib.rs):     *)
(* hashmap!, hashset!, btreemap! and btreeset!.                            *)
(*                                                                         *)
(* One behaviour is one macro invocation: the token stream the caller      *)
(* wrote is matched against the macro's rules (macro expansion), and the   *)
(* block the matching rule expands to is then executed statement by        *)
(* statement: the arity count, the allocation, and for each entry in list  *)
(* order the evaluation of its key expression, of its value expression,    *)
(* the two `.into()` conversions and the insert.                           *)
(***************************************************************************)
EXTENDS Integers, Sequences, FiniteSets

\* ---------------------------------------------------------------- bounds
MaxLen == 2      \* longest entry list written
MaxKey == 2      \* key / element payloads are 1..MaxKey
MaxVal == 2      \* value payloads are 1..MaxVal
MaxOpts == 2     \* longest option bag written in front of the entries
MaxCap == 1      \* capacity option values are 0..MaxCap
MaxTokens == 3   \* options + entries of one invocation

\* ---------------------------------------------------------------- values
\* A Rust value is a type tag and a payload.  'a' (char) and "a" (&str) are
\* [ty |-> "char", v |-> 1] and [ty |-> "str", v |-> 1].
Unit == [ty |-> "unit", v |-> 0]
Absent == [ty |-> "none", v |-> 0]

KeyTypes == {"char", "str"}
WrittenKeys == [ty : KeyTypes, v : 1..MaxKey]
WrittenVals == [ty : {"str"}, v : 1..MaxVal]

Builders == {"hashmap", "hashset", "btreemap", "btreeset"}
Unordered == {"hashmap", "hashset"}
Maps == {"hashmap", "btreemap"}

\* The From impls of the standard library the model covers: T -> T, and
\* char -> String, &str -> String.
CanInto(s, t) == s = t \/ (t = "String" /\ s \in {"char", "str"})

SeqsUpTo(S, n) == UNION {[1..m -> S] : m \in 0..n}

EntryDomain(b) ==
    IF b \in Maps THEN [k : WrittenKeys, v : WrittenVals]
                  ELSE [k : WrittenKeys, v : {Unit}]

OptTokens ==
    {[name |-> "capacity", val |-> c] : c \in 0..MaxCap}
        \cup {[name |-> "hasher", val |-> 0], [name |-> "key_map", val |-> 0]}

VARIABLES
    builder,   \* which macro is invoked
    opts,      \* option tokens written in front of the entry list
    entries,   \* the entry list as written: <<[k, v], ...>>
    trailing,  \* whether the caller wrote a separator after the last entry
    KT, VT,    \* key and value type of the container the caller declared
    toks,      \* the macro's current input [es, tr] (changes on re-invocation)
    pc,        \* position in the expansion / in the expanded block
    cap,       \* _cap (-1 while unset; the btree macros have none)
    hint,      \* the argument given to with_capacity (-1: no such call yet)
    cont,      \* _map / _set: sequence of [k, v] slots
    i,         \* index of the entry being processed
    curK, curV,\* the converted key and value about to be inserted
    evalK, evalV, \* how often entry j's key / value expression was evaluated
    err        \* the compiler's diagnostic when the invocation is rejected

vars == <<builder, opts, entries, trailing, KT, VT, toks, pc, cap, hint, cont,
          i, curK, curV, evalK, evalV, err>>

invocation == <<builder, opts, entries, trailing, KT, VT>>

\* ------------------------------------------------------- macro expansion
\* macro_rules! has one way to fail: "no rules expected the token ...".
NoError == "none"
NoRulesExpected == "no rules expected the token"

\* (@single $($x:tt)*) => (()): the tokens of x are matched as token trees and
\* dropped; the expansion is the unit value and holds no trace of x, so it
\* evaluates x zero times.
SingleEvaluating(x) == [val |-> Unit, evals |-> 1]
Single(x) == [val |-> Unit, evals |-> 0]

\* (@count $($rest:expr),*) => (<[()]>::len(&[$(hashmap!(@single $rest)),*])):
\* the length of an array holding one unit per key, and how often building
\* that array evaluates each key.
CountDistinct(es) ==
    [len |-> Cardinality({es[j].k : j \in 1..Len(es)}),
     evals |-> [j \in 1..Len(es) |-> 0]]
Count(es) ==
    [len |-> Len([j \in 1..Len(es) |-> Single(es[j].k).val]),
     evals |-> [j \in 1..Len(es) |-> Single(es[j].k).evals]]

\* ($($key:expr => $value:expr,)+) and ($($key:expr,)+): one or more entries,
\* each followed by a separator.  No rule of any of the four macros has a
\* place for option tokens, so a non-empty option bag matches nothing.
RuleTrailing(o, es, tr) == o = <<>> /\ tr /\ Len(es) >= 1

\* ($($key:expr => $value:expr),*) and ($($key:expr),*): zero or more entries
\* separated by separators, none after the last.
RulePlainIgnoringOptions(o, es, tr) == ~tr
RulePlainLeadingCapacity(o, es, tr) ==
    ~tr /\ (o = <<>> \/ (Len(o) = 2 /\ o[1].name = "capacity" /\ o[2].name = "hasher"))
RulePlain(o, es, tr) == o = <<>> /\ ~tr

\* => { hashmap!($($key => $value),+) }: the macro is invoked again on the
\* same entries, written without the last separator.
ReinvokeDroppingLast(es) == [es |-> SubSeq(es, 1, Len(es) - 1), tr |-> FALSE]
Reinvoke(es) == [es |-> es, tr |-> FALSE]

\* $( _map.insert($key.into(), $value.into()); )*: the repetition expands to
\* one insert statement per entry, in the order the entries were written.
EntryIndexReversed(n, idx) == n + 1 - idx
EntryIndex(n, idx) == idx

\* ------------------------------------------------------------ conversion
\* $key.into() / $value.into(): the value converted to the type t the
\* container declares.  T -> T leaves the value alone; char -> String and
\* &str -> String yield the String with the same text.
IntoIdentity(t, x) == x
Into(t, x) == IF x.ty = t THEN x ELSE [ty |-> t, v |-> x.v]

\* ------------------------------------------------------------ containers
\* A container is a sequence of slots [k, v]; a set is a map to the unit.
SlotOf(c, k) == CHOOSE j \in 1..Len(c) : c[j].k = k
Has(c, k) == \E j \in 1..Len(c) : c[j].k = k
Lookup(c, k) == IF Has(c, k) THEN c[SlotOf(c, k)].v ELSE Absent

\* HashMap::insert / HashSet::insert: an equal key keeps its slot and gets the
\* new value; a new key gets a new slot.
HashInsertAppend(c, k, v) == Append(c, [k |-> k, v |-> v])
HashInsertKeepFirst(c, k, v) ==
    IF Has(c, k) THEN c ELSE Append(c, [k |-> k, v |-> v])
HashInsert(c, k, v) ==
    IF Has(c, k) THEN [c EXCEPT ![SlotOf(c, k)].v = v]
                 ELSE Append(c, [k |-> k, v |-> v])

\* BTreeMap::insert / BTreeSet::insert: as above, and a new key goes to its
\* place in the comparison order of the keys.
Less(a, b) == a.v < b.v
BTreeInsertAppend(c, k, v) ==
    IF Has(c, k) THEN [c EXCEPT ![SlotOf(c, k)].v = v]
                 ELSE Append(c, [k |-> k, v |-> v])
BTreeInsert(c, k, v) ==
    IF Has(c, k) THEN [c EXCEPT ![SlotOf(c, k)].v = v]
    ELSE LET below == Cardinality({j \in 1..Len(c) : Less(c[j].k, k)})
         IN  SubSeq(c, 1, below) \o <<[k |-> k, v |-> v]>>
                 \o SubSeq(c, below + 1, Len(c))

\* ------------------------------------------------------------------ Init
TypeChecks(b, es, kt, vt) ==
    /\ \A j \in 1..Len(es) : CanInto(es[j].k.ty, kt) /\ CanInto(es[j].v.ty, vt)
    /\ b \in Maps => vt \in {"str", "String"}
    /\ b \notin Maps => vt = "unit"

Init ==
    /\ builder \in Builders
    /\ opts \in SeqsUpTo(OptTokens, MaxOpts)
    /\ opts # <<>> => builder \in Unordered
    /\ entries \in SeqsUpTo(EntryDomain(builder), MaxLen)
    /\ Len(opts) + Len(entries) <= MaxTokens
    /\ trailing \in BOOLEAN
    /\ KT \in {"char", "str", "String"}
    /\ VT \in {"str", "String", "unit"}
    /\ TypeChecks(builder, entries, KT, VT)
    /\ toks = [es |-> entries, tr |-> trailing]
    /\ pc = "expand"
    /\ cap = -1
    /\ hint = -1
    /\ cont = <<>>
    /\ i = 1
    /\ curK = Absent
    /\ curV = Absent
    /\ evalK = [j \in 1..Len(entries) |-> 0]
    /\ evalV = [j \in 1..Len(entries) |-> 0]
    /\ err = NoError

\* --------------------------------------------------------------- actions
\* The trailing-separator rule matches: re-invoke without the separator.
ExpandTrailing ==
    /\ pc = "expand"
    /\ RuleTrailing(opts, toks.es, toks.tr)
    /\ toks' = Reinvoke(toks.es)
    /\ UNCHANGED <<invocation, pc, cap, hint, cont, i, curK, curV, evalK, evalV, err>>

\* The separator-free rule matches: the block it expands to starts running.
ExpandPlain ==
    /\ pc = "expand"
    /\ ~RuleTrailing(opts, toks.es, toks.tr)
    /\ RulePlain(opts, toks.es, toks.tr)
    /\ pc' = IF builder \in Unordered THEN "count" ELSE "alloc"
    /\ UNCHANGED <<invocation, toks, cap, hint, cont, i, curK, curV, evalK, evalV, err>>

\* No rule matches: the compiler rejects the invocation; nothing runs.
ExpandFail ==
    /\ pc = "expand"
    /\ ~RuleTrailing(opts, toks.es, toks.tr)
    /\ ~RulePlain(opts, toks.es, toks.tr)
    /\ pc' = "error"
    /\ err' = NoRulesExpected
    /\ UNCHANGED <<invocation, toks, cap, hint, cont, i, curK, curV, evalK, evalV>>

\* let _cap = hashmap!(@count $($key),*);
CountEntries ==
    /\ pc = "count"
    /\ cap' = Count(toks.es).len
    /\ evalK' = [j \in DOMAIN evalK |->
                    evalK[j] + (IF j \in 1..Len(toks.es)
                                THEN Count(toks.es).evals[j] ELSE 0)]
    /\ pc' = "alloc"
    /\ UNCHANGED <<invocation, toks, hint, cont, i, curK, curV, evalV, err>>

\* let mut _map = HashMap::with_capacity(_cap);  /  BTreeMap::new();
Allocate ==
    /\ pc = "alloc"
    /\ hint' = IF builder \in Unordered THEN cap ELSE hint
    /\ cont' = <<>>
    /\ i' = 1
    /\ pc' = IF Len(toks.es) = 0 THEN "ret" ELSE "key"
    /\ UNCHANGED <<invocation, toks, cap, curK, curV, evalK, evalV, err>>

\* $key.into(): the key expression of entry i is evaluated and converted.
EvalKey ==
    /\ pc = "key"
    /\ LET m == EntryIndex(Len(toks.es), i) IN
        /\ evalK' = [evalK EXCEPT ![m] = @ + 1]
        /\ curK' = Into(KT, toks.es[m].k)
    /\ curV' = IF builder \in Maps THEN curV ELSE Unit
    /\ pc' = IF builder \in Maps THEN "val" ELSE "insert"
    /\ UNCHANGED <<invocation, toks, cap, hint, cont, i, evalV, err>>

\* $value.into(): then the value expression of entry i (map macros only).
EvalValue ==
    /\ pc = "val"
    /\ LET m == EntryIndex(Len(toks.es), i) IN
        /\ evalV' = [evalV EXCEPT ![m] = @ + 1]
        /\ curV' = Into(VT, toks.es[m].v)
    /\ pc' = "insert"
    /\ UNCHANGED <<invocation, toks, cap, hint, cont, i, curK, evalK, err>>

\* _map.insert(key, value);  /  _set.insert(key);
Insert ==
    /\ pc = "insert"
    /\ cont' = IF builder \in Unordered THEN HashInsert(cont, curK, curV)
                                        ELSE BTreeInsert(cont, curK, curV)
    /\ i' = i + 1
    /\ pc' = IF i = Len(toks.es) THEN "ret" ELSE "key"
    /\ UNCHANGED <<invocation, toks, cap, hint, curK, curV, evalK, evalV, err>>

\* _map: the block's value is the container, now the caller's.
Return ==
    /\ pc = "ret"
    /\ pc' = "done"
    /\ UNCHANGED <<invocation, toks, cap, hint, cont, i, curK, curV, evalK, evalV, err>>

Next ==
    \/ ExpandTrailing
    \/ ExpandPlain
    \/ ExpandFail
    \/ CountEntries
    \/ Allocate
    \/ EvalKey
    \/ EvalValue
    \/ Insert
    \/ Return

Spec == Init /\ [][Next]_vars

\* ================================================================ claims
N == Len(entries)
Running == pc \in {"key", "val", "insert", "ret", "done"}

\* The key / value of a written entry as the declared container holds it.
AsKey(k) == [ty |-> KT, v |-> k.v]
AsVal(v) == IF builder \in Maps THEN [ty |-> VT, v |-> v.v] ELSE Unit

\* What the separator-free rule builds from the first n entries of es.
RECURSIVE InsertAll(_, _)
InsertAll(es, n) ==
    IF n = 0 THEN <<>>
    ELSE IF builder \in Unordered
         THEN HashInsert(InsertAll(es, n - 1), Into(KT, es[n].k),
                         IF builder \in Maps THEN Into(VT, es[n].v) ELSE Unit)
         ELSE BTreeInsert(InsertAll(es, n - 1), Into(KT, es[n].k),
                          IF builder \in Maps THEN Into(VT, es[n].v) ELSE Unit)
Built(es) == InsertAll(es, Len(es))

Perms(n) == {f \in [1..n -> 1..n] : \A a, b \in 1..n : f[a] = f[b] => a = b}
Permuted(sq, f) == [j \in 1..Len(sq) |-> sq[f[j]]]
Last(S) == CHOOSE j \in S : \A m \in S : m <= j
KeysOf(c) == {c[j].k : j \in 1..Len(c)}

\* ---- C1
\* C1: one build call evaluates each entry's key expression, and for the map
\* macros each value expression, exactly once: never twice at any point, zero
\* times up to and including the arity count, and once when the call returns.
C1_EvaluatedExactlyOnce ==
    /\ \A j \in 1..N : evalK[j] <= 1 /\ evalV[j] <= 1
    /\ pc \in {"expand", "count", "alloc"} =>
          \A j \in 1..N : evalK[j] = 0 /\ evalV[j] = 0
    /\ pc = "done" =>
          \A j \in 1..N : /\ evalK[j] = 1
                          /\ evalV[j] = (IF builder \in Maps THEN 1 ELSE 0)

C1_Witness == pc = "done" /\ builder = "hashmap" /\ N >= 2 /\ cap = N

\* ---- C2
\* C2 (as claimed): every option-free invocation, whether or not a separator
\* follows the last entry and whether or not the list is empty, is accepted
\* and returns what the separator-free rule builds from the list.
C2_Original ==
    opts = <<>> => /\ pc # "error"
                   /\ pc = "done" => cont = Built(entries)

\* C2 (amended): for every non-empty entry list, the invocation written with
\* one trailing separator returns the same container as the one written
\* without it; the empty list without separator is accepted and returns an
\* empty container; a separator with no entry before it is rejected.
C2_TrailingSeparator ==
    /\ (opts = <<>> /\ (entries # <<>> \/ ~trailing)) =>
          /\ pc # "error"
          /\ pc = "done" => cont = Built(entries)
    /\ (opts = <<>> /\ entries = <<>> /\ pc = "done") => cont = <<>>
    /\ (entries = <<>> /\ trailing) => pc \in {"expand", "error"}

C2_Witness == pc = "done" /\ trailing /\ N >= 2 /\ Len(cont) >= 2

\* ---- C3
\* C3 (as claimed): the length of the container hashmap! / hashset! returns is
\* the number of distinct keys / elements written in the list.
C3_Original ==
    (pc = "done" /\ builder \in Unordered) =>
        Len(cont) = Cardinality({entries[j].k : j \in 1..N})

\* C3 (amended): the length is the number of distinct keys / elements after
\* their conversion to the container's key type; repeated ones add nothing.
C3_LengthIsDistinctKeys ==
    (pc = "done" /\ builder \in Unordered) =>
        Len(cont) = Cardinality({AsKey(entries[j].k) : j \in 1..N})

C3_Witness ==
    /\ pc = "done" /\ builder \in Unordered
    /\ \E a, b \in 1..N : a < b /\ entries[a].k = entries[b].k
    /\ Len(cont) < N

\* ---- C4
\* C4 (as claimed): for every written key k, looking k up in the built map
\* gives the value of the last entry whose written key is k, and nothing when
\* no entry is written with key k.
C4_Original ==
    (pc = "done" /\ builder \in Maps) =>
        \A k \in WrittenKeys : CanInto(k.ty, KT) =>
            LET occ == {j \in 1..N : entries[j].k = k} IN
            Lookup(cont, AsKey(k)) =
                IF occ # {} THEN AsVal(entries[Last(occ)].v) ELSE Absent

\* C4 (amended): for every key k of the map's key type, the lookup gives the
\* converted value of the last entry whose converted key equals k, and nothing
\* when no entry's key converts to k; the empty list builds a map of length 0.
C4_LastWriteWins ==
    (pc = "done" /\ builder \in Maps) =>
        /\ \A k \in [ty : {KT}, v : 1..MaxKey] :
              LET occ == {j \in 1..N : AsKey(entries[j].k) = k} IN
              Lookup(cont, k) =
                  IF occ # {} THEN AsVal(entries[Last(occ)].v) ELSE Absent
        /\ entries = <<>> => Len(cont) = 0

C4_Witness ==
    /\ pc = "done" /\ builder \in Maps
    /\ \E a, b \in 1..N :
          /\ a < b /\ AsKey(entries[a].k) = AsKey(entries[b].k)
          /\ entries[a].v # entries[b].v
          /\ Lookup(cont, AsKey(entries[a].k)) = AsVal(entries[b].v)

\* ---- C5
Ascending(c) == \A j \in 1..(Len(c) - 1) : Less(c[j].k, c[j + 1].k)

\* C5 (as claimed): the container btreemap! / btreeset! returns iterates in
\* strictly ascending key order, and every permutation of a list whose
\* written keys are pairwise distinct builds the same container.
C5_Original ==
    (pc = "done" /\ builder \notin Unordered) =>
        /\ Ascending(cont)
        /\ Cardinality({entries[j].k : j \in 1..N}) = N =>
              \A f \in Perms(N) : Built(Permuted(entries, f)) = cont

\* C5 (amended): as claimed, for the permutations of a list whose keys are
\* pairwise distinct after conversion to the container's key type.
C5_AscendingOrder ==
    (pc = "done" /\ builder \notin Unordered) =>
        /\ Ascending(cont)
        /\ Cardinality({AsKey(entries[j].k) : j \in 1..N}) = N =>
              \A f \in Perms(N) : Built(Permuted(entries, f)) = cont

C5_Witness ==
    /\ pc = "done" /\ builder \notin Unordered /\ N >= 2
    /\ Less(entries[2].k, entries[1].k)
    /\ cont[1].k = AsKey(entries[2].k)

\* ---- C6
\* The capacity option of a bag: its value when the bag sets one, else 0.
CapacityOption(o) ==
    IF \E j \in 1..Len(o) : o[j].name = "capacity"
    THEN o[CHOOSE j \in 1..Len(o) : o[j].name = "capacity"].val
    ELSE 0

C7_Original ==
    (builder = "hashmap" /\ opts = <<>> /\ pc = "insert") =>
        (curK = entries[i].k /\ curV = entries[i].v)

\* C7 (amended): hashmap! has no key_map option; it passes both the key and
\* the value of every entry through `.into()`, so the pair stored for the
\* entry (k, v) is (k, v) converted to the map's key and value types, which
\* is exactly (k, v) only when the two are written with those types already.
C7_StoredPair ==
    builder = "hashmap" =>
        /\ pc = "insert" =>
              /\ curK.ty = KT /\ curK.v = entries[i].k.v
              /\ curV.ty = VT /\ curV.v = entries[i].v.v
              /\ (entries[i].k.ty = KT => curK = entries[i].k)
              /\ (entries[i].v.ty = VT => curV = entries[i].v)
        /\ (pc \in {"key", "ret"} /\ i > 1) =>
              /\ Lookup(cont, curK) = curV
              /\ curK = [ty |-> KT, v |-> entries[i - 1].k.v]
              /\ curV = [ty |-> VT, v |-> entries[i - 1].v.v]

C7_Witness ==
    /\ builder = "hashmap" /\ pc = "ret" /\ i > 1
    /\ entries[i - 1].k.ty # KT /\ entries[i - 1].v.ty # VT
    /\ Lookup(cont, curK) = curV

\* ---- C8
HasDuplicate(o) == \E a, b \in 1..Len(o) : a < b /\ o[a].name = o[b].name

Accepted(o, es, tr) ==
    \/ RuleTrailing(o, es, tr) /\ RulePlain(o, Reinvoke(es).es, Reinvoke(es).tr)
    \/ ~RuleTrailing(o, es, tr) /\ RulePlain(o, es, tr)

Inserted ==
    IF pc \in {"key", "val", "insert"} THEN i - 1
    ELSE IF pc \in {"ret", "done"} THEN Len(toks.es) ELSE 0

\* C10: nothing is evaluated before the count and the allocation are done;
\* then entry by entry in list order the key is evaluated, then the value,
\* then the entry is inserted, before the next entry's key is evaluated.  The
\* container holds only keys of the entries inserted so far, and the
\* unordered ones never more slots than the capacity hint.
C10_BuildOrder ==
    /\ ~Running => /\ cont = <<>>
                   /\ \A j \in 1..N : evalK[j] = 0 /\ evalV[j] = 0
    /\ (Running /\ builder \in Unordered) => (cap = N /\ hint = cap)
    /\ \A j \in 1..N :
          /\ evalK[j] = IF j <= Inserted \/ (j = i /\ pc \in {"val", "insert"})
                        THEN 1 ELSE 0
          /\ evalV[j] = IF builder \in Maps /\ (j <= Inserted \/ (j = i /\ pc = "insert"))
                        THEN 1 ELSE 0
    /\ KeysOf(cont) \subseteq {AsKey(entries[j].k) : j \in 1..Inserted}
    /\ (Running /\ builder \in Unordered) => Len(cont) <= hint

C10_Witness ==
    /\ builder = "hashmap" /\ pc = "val" /\ i = 2
    /\ evalK[2] = 1 /\ evalV[2] = 0 /\ Len(cont) = 1
    /\ entries[1].k # entries[2].k

====
